---- MODULE Spec2Model ----
(***************************************************************************)
(* Model of apilyzer/verify.py: the REST classifier (_is_json_rest_api),   *)
(* the documentation locator (check_swagger_rest), the maturity scorer     *)
(* (_verify_maturity_paths), the HTTPS checker (_supports_https), the      *)
(* driver analyze_api_maturity and estimate_rate_limit.                    *)
(*                                                                         *)
(* Strings the code inspects by prefix, suffix or containment are          *)
(* sequences of tokens.  The tokens "http", "s", ":", "/", "api", "x" are  *)
(* such that none is a prefix of another, so a prefix test on tokens is    *)
(* the prefix test on the characters they stand for.                       *)
(***************************************************************************)
EXTENDS Integers, Sequences, FiniteSets, TLC

VARIABLES
    op,            \* the public operation called: "check_swagger_rest" or "analyze_api_maturity"
    uri,           \* its uri argument
    doc_endpoint,  \* its doc_endpoint argument (NoEndpoint for None)
    host,          \* the target: "up" (answers requests) or "down" (refuses connections)
    live,          \* how many candidates got an answer other than the target's 404
    pc,            \* position of the caller-driven flow
    idx,           \* position of the for loop of check_swagger_rest in endpoints
    errors,        \* _errors of check_swagger_rest
    cls,           \* what the last call of _is_json_rest_api did
    swagger_doc,   \* the value check_swagger_rest returned
    probes,        \* URLs passed to _is_json_rest_api, in call order
    gets,          \* URLs of the GET requests issued, in order
    calls,         \* components analyze_api_maturity ran, in order
    result,        \* the value analyze_api_maturity returned
    s_paths,       \* the paths argument of _verify_maturity_paths
    s_pc,          \* "input" while the argument is built, "scored" after the call
    s_feedback,    \* feedback['messages'] of _verify_maturity_paths
    r_n,           \* the max_requests argument of estimate_rate_limit
    r_tasks,       \* its tasks: where each make_request is, and what it returned
    r_sent,        \* how many GET requests its tasks have issued
    r_pc,          \* "gathering" until asyncio.gather returns, then "returned"
    r_result       \* the value estimate_rate_limit returned

locatorVars == <<op, uri, doc_endpoint, host, live, pc, idx, errors, cls,
                 swagger_doc, probes, gets, calls, result>>
scorerVars == <<s_paths, s_pc, s_feedback>>
rateVars == <<r_n, r_tasks, r_sent, r_pc, r_result>>
vars == <<op, uri, doc_endpoint, host, live, pc, idx, errors, cls,
          swagger_doc, probes, gets, calls, result, s_paths, s_pc, s_feedback,
          r_n, r_tasks, r_sent, r_pc, r_result>>

\* At most MaxLive candidate URLs of an "up" target answer anything but 404.
MaxLive == 2
\* At most MaxSize nodes (paths, methods, response entries) in a paths mapping.
MaxSize == 5
\* max_requests is at most MaxRequests.
MaxRequests == 3

(***************************************************************************)
(* Strings                                                                 *)
(***************************************************************************)
StartsWith(s, p) == Len(p) <= Len(s) /\ SubSeq(s, 1, Len(p)) = p

Contains(s, tok) == \E k \in 1..Len(s) : s[k] = tok

RECURSIVE RStrip(_, _)
RStrip(s, ch) ==
    IF s # <<>> /\ s[Len(s)] = ch THEN RStrip(SubSeq(s, 1, Len(s) - 1), ch) ELSE s

RECURSIVE LStrip(_, _)
LStrip(s, ch) ==
    IF s # <<>> /\ s[1] = ch THEN LStrip(Tail(s), ch) ELSE s

\* str.lower() on the tokens that occur in bodies
Lower(tok) ==
    CASE tok = "Swagger" -> "swagger"
      [] tok = "OpenAPI" -> "openapi"
      [] tok = "Paths" -> "paths"
      [] OTHER -> tok

(***************************************************************************)
(* JSON values and response bodies                                         *)
(***************************************************************************)
\* A paths mapping is a sequence of path items (a dict keeps insertion
\* order); the path's key is its position.  A path item is a sequence of
\* [method, responses]; responses is a sequence of [code, description].
\* A method without a 'responses' key reads as one with none (.get default).
DocPaths ==
    << << [method |-> "get",
           responses |-> << [code |-> "200", description |-> "OK"] >>],
          [method |-> "post",
           responses |-> << [code |-> "201", description |-> "Wrong"] >>] >> >>

JDict(hasPaths, paths) == [t |-> "dict", hasPaths |-> hasPaths, paths |-> paths, inner |-> "none"]
JList == [t |-> "list", hasPaths |-> FALSE, paths |-> <<>>, inner |-> "none"]
\* a JSON string; inner is what json.loads of the string's content yields
JStr(inner) == [t |-> "str", hasPaths |-> FALSE, paths |-> <<>>, inner |-> inner]
JNull == [t |-> "null", hasPaths |-> FALSE, paths |-> <<>>, inner |-> "none"]
\* not a JSON text: json() raises
JInvalid == [t |-> "invalid", hasPaths |-> FALSE, paths |-> <<>>, inner |-> "none"]
\* Python None
None == [t |-> "None", hasPaths |-> FALSE, paths |-> <<>>, inner |-> "none"]

Bodies ==
    { [text |-> <<"{", "swagger", "paths", "}">>, json |-> JDict(TRUE, DocPaths)],
      [text |-> <<"{", "OpenAPI", "}">>, json |-> JDict(FALSE, <<>>)],
      [text |-> <<"{", "id", "}">>, json |-> JDict(FALSE, <<>>)],
      [text |-> <<"[", "documentation", "]">>, json |-> JList],
      [text |-> <<"\"", "swagger", "\"">>, json |-> JStr("invalid")],
      [text |-> <<"\"", "{", "openapi", "}", "\"">>, json |-> JStr("dict")],
      [text |-> <<"null">>, json |-> JNull],
      [text |-> <<"<html>", "Swagger", "UI", "</html>">>, json |-> JInvalid],
      [text |-> <<"<html>", "hello", "</html>">>, json |-> JInvalid] }

NoBody == [text |-> <<>>, json |-> JInvalid]

(***************************************************************************)
(* The HTTP transport (httpx): what one GET can produce                    *)
(***************************************************************************)
ContentTypes == { <<"application/json", ";", "charset=utf-8">>, <<"text/html">> }
AllowHeaders == { <<>>, <<"GET", ",", "POST">> }

Response(code, reason, ct, allow, body) ==
    [kind |-> "response", status_code |-> code, reason_phrase |-> reason,
     content_type |-> ct, allow |-> allow, body |-> body, url |-> <<>>]

Failure(kind) ==
    [kind |-> kind, status_code |-> 0, reason_phrase |-> "",
     content_type |-> <<>>, allow |-> <<>>, body |-> NoBody, url |-> <<>>]

\* no response object (Python None), and the marker of a call that sent nothing
NoResponse == Failure("None")

NotFound == Response(404, "Not Found", <<"text/html">>, <<>>, NoBody)
ConnectError == Failure("ConnectError")
ReadTimeout == Failure("ReadTimeout")
UnsupportedProtocol == Failure("UnsupportedProtocol")

OkResponses ==
    { Response(200, "OK", ct, al, b) : ct \in ContentTypes, al \in AllowHeaders, b \in Bodies }

\* answers of an "up" target other than its 404
LiveOutcomes == OkResponses \cup {ReadTimeout}

HasHttpScheme(u) ==
    \/ StartsWith(u, <<"http", ":", "/", "/">>)
    \/ StartsWith(u, <<"http", "s", ":", "/", "/">>)

\* httpx refuses a URL without an http:// or https:// scheme with
\* UnsupportedProtocol (a RequestError that is not a ConnectError).
Transport(u, h, n) ==
    IF ~HasHttpScheme(u) THEN {UnsupportedProtocol}
    ELSE IF h = "down" THEN {ConnectError}
    ELSE {NotFound} \cup (IF n < MaxLive THEN LiveOutcomes ELSE {})

IsLive(o) == o \in LiveOutcomes

(***************************************************************************)
(* _is_json_rest_api                                                       *)
(***************************************************************************)
Verbs == {"GET", "POST", "PUT", "PATCH", "DELETE"}

IsJsonContentType(ct) == Contains(ct, "application/json")

\* the call returned (is_rest, response); requested: it sent a GET
Returned(is_rest, response, requested) ==
    [raised |-> FALSE, exc |-> "", is_rest |-> is_rest, response |-> response,
     requested |-> requested]

\* the call raised exc out of its GET or out of response.json()
Raised(exc) ==
    [raised |-> TRUE, exc |-> exc, is_rest |-> FALSE, response |-> NoResponse,
     requested |-> TRUE]

\* line 28: uri.startswith('http') or uri.startswith('https')
PassesSchemeGuard(u) == StartsWith(u, <<"http">>) \/ StartsWith(u, <<"http", "s">>)

\* o is what the GET of line 36 produces when it is sent
is_json_rest_api(u, o) ==
    IF ~PassesSchemeGuard(u) THEN Returned(FALSE, NoResponse, FALSE)
    ELSE IF o.kind = "ConnectError" THEN Returned(FALSE, NoResponse, TRUE)
    ELSE IF o.kind # "response" THEN Raised(o.kind)
    ELSE LET response == [o EXCEPT !.url = RStrip(u, "/")] IN
         IF o.status_code \div 100 # 2 THEN Returned(FALSE, response, TRUE)
         ELSE IF IsJsonContentType(o.content_type) /\ o.body.json.t = "invalid"
              THEN Raised("JSONDecodeError")
         ELSE IF IsJsonContentType(o.content_type) /\ o.body.json.t \in {"list", "dict"}
              THEN Returned(TRUE, response, TRUE)
         ELSE IF \E verb \in Verbs : Contains(o.allow, verb)
              THEN Returned(TRUE, response, TRUE)
         ELSE Returned(FALSE, response, TRUE)

(***************************************************************************)
(* check_swagger_rest                                                      *)
(***************************************************************************)
api_terms == {"swagger", "openapi", "endpoints", "paths", "documentation"}

\* the list with swagger.json tried before openapi.json
DefaultEndpointsSwaggerFirst ==
    << <<"swagger.json">>, <<"openapi.json">>, <<"docs">>, <<"api-docs">>,
       <<"swagger">>, <<"redoc">>, <<"api", "/", "docs">>,
       <<"swagger", "/", "ui">>, <<>> >>

DefaultEndpoints ==
    << <<"openapi.json">>, <<"swagger.json">>, <<"docs">>, <<"api-docs">>,
       <<"swagger">>, <<"redoc">>, <<"api", "/", "docs">>,
       <<"swagger", "/", "ui">>, <<>> >>

\* doc_endpoint = None
NoEndpoint == <<"<None>">>

\* Python truth of doc_endpoint: None and '' are false
Truthy(ep) == ep # NoEndpoint /\ ep # <<>>

\* doc_endpoint after line 87
StrippedEndpoint(ep) == IF Truthy(ep) THEN LStrip(ep, "/") ELSE ep

\* lines 86-100
Endpoints(ep) == IF Truthy(ep) THEN << StrippedEndpoint(ep) >> ELSE DefaultEndpoints

\* f'{url}/{endpoint}' with url = uri.rstrip('/')
FullUrl(u, endpoint) == RStrip(u, "/") \o <<"/">> \o endpoint

\* any(term in response.text.lower() for term in api_terms)
HasApiTerm(text) == \E k \in 1..Len(text) : Lower(text[k]) \in api_terms

ErrNotRest(full_url) ==
    [kind |-> "not_rest", url |-> full_url, code |-> 0, reason |-> "", exc |-> ""]
ErrStatus(response) ==
    [kind |-> "client_error", url |-> response.url, code |-> response.status_code,
     reason |-> response.reason_phrase, exc |-> ""]
ErrException(full_url, exc) ==
    [kind |-> "exception", url |-> full_url, code |-> 0, reason |-> "", exc |-> exc]

NoMessage == [text |-> "", url |-> <<>>, note |-> ""]
NoDoc == [status |-> "none", message |-> NoMessage, response |-> None, collected |-> {}]

\* the three values check_swagger_rest returns; the 'response' key of the
\* error value, list(_errors), is the field collected
SuccessDoc(full_url, payload) ==
    [status |-> "success",
     message |-> [text |-> "REST API JSON documentation found at", url |-> full_url,
                  note |-> ""],
     response |-> payload, collected |-> {}]
WarningDoc(full_url, ep) ==
    [status |-> "warning",
     message |-> [text |-> "Potential REST API documentation found, but not in JSON format",
                  url |-> full_url,
                  note |-> IF ~Truthy(StrippedEndpoint(ep))
                           THEN "(Endpoint not specified, please provide the JSON documentation endpoint)"
                           ELSE ""],
     response |-> None, collected |-> {}]
ErrorDoc(errs, ep) ==
    [status |-> "error",
     message |-> [text |-> "No REST API documentation found", url |-> <<>>,
                  note |-> IF ~Truthy(StrippedEndpoint(ep))
                           THEN "(Endpoint not specified, and we could not identify it with the base URL alone)"
                           ELSE ""],
     response |-> None, collected |-> errs]

Continue(errs) == [returns |-> FALSE, errors |-> errs, doc |-> NoDoc]
Return(doc) == [returns |-> TRUE, errors |-> {}, doc |-> doc]

\* the iteration with the success value built like the warning value,
\* 'response': None
check_candidate_payload_none(full_url, r, ep) ==
    IF r.raised THEN Continue({ErrException(full_url, r.exc)})
    ELSE IF ~r.is_rest THEN Continue({ErrNotRest(full_url)})
    ELSE IF r.response.status_code \div 100 # 2 THEN Continue({ErrStatus(r.response)})
    ELSE IF HasApiTerm(r.response.body.text)
         THEN IF IsJsonContentType(r.response.content_type)
              THEN Return(SuccessDoc(full_url, None))
              ELSE Return(WarningDoc(full_url, ep))
    ELSE Continue({})

\* the iteration without the try/except of lines 104 and 138: an exception
\* of the classifier ends check_swagger_rest without a value
check_candidate_uncaught(full_url, r, ep) ==
    IF r.raised THEN Return([NoDoc EXCEPT !.status = "raised"])
    ELSE IF ~r.is_rest THEN Continue({ErrNotRest(full_url)})
    ELSE IF r.response.status_code \div 100 # 2 THEN Continue({ErrStatus(r.response)})
    ELSE IF HasApiTerm(r.response.body.text)
         THEN IF IsJsonContentType(r.response.content_type)
              THEN Return(SuccessDoc(full_url, r.response.body.json))
              ELSE Return(WarningDoc(full_url, ep))
    ELSE Continue({})

\* one iteration of the for loop (lines 103-139), r being what
\* _is_json_rest_api(full_url) did
check_candidate(full_url, r, ep) ==
    IF r.raised THEN Continue({ErrException(full_url, r.exc)})
    ELSE IF ~r.is_rest THEN Continue({ErrNotRest(full_url)})
    ELSE IF r.response.status_code \div 100 # 2 THEN Continue({ErrStatus(r.response)})
    ELSE IF HasApiTerm(r.response.body.text)
         THEN IF IsJsonContentType(r.response.content_type)
              THEN IF r.response.body.json.t = "invalid"
                   THEN Continue({ErrException(full_url, "JSONDecodeError")})
                   ELSE Return(SuccessDoc(full_url, r.response.body.json))
              ELSE Return(WarningDoc(full_url, ep))
    ELSE Continue({})

(***************************************************************************)
(* _supports_https                                                         *)
(***************************************************************************)
HttpScheme == <<"http", ":", "/", "/">>
HttpsScheme == <<"http", "s", ":", "/", "/">>

\* str.replace('http://', 'https://')
RECURSIVE ReplaceHttp(_)
ReplaceHttp(s) ==
    IF s = <<>> THEN <<>>
    ELSE IF StartsWith(s, HttpScheme)
         THEN HttpsScheme \o ReplaceHttp(SubSeq(s, Len(HttpScheme) + 1, Len(s)))
    ELSE <<Head(s)>> \o ReplaceHttp(Tail(s))

\* lines 168-172
HttpsUri(u) == IF StartsWith(u, HttpScheme) THEN ReplaceHttp(u) ELSE u

HttpsResult(status, raised, exc) == [status |-> status, raised |-> raised, exc |-> exc]

\* lines 174-203, o being what the GET of line 177 produces; RequestError
\* covers every transport failure, not the ValueError of response.json()
supports_https(u, o) ==
    IF o.kind # "response" THEN HttpsResult("error", FALSE, "")
    ELSE IF o.status_code \div 100 = 2
         THEN IF IsJsonContentType(o.content_type) /\ o.body.json.t = "invalid"
              THEN HttpsResult("raised", TRUE, "JSONDecodeError")
              ELSE HttpsResult("success", FALSE, "")
    ELSE HttpsResult("error", FALSE, "")

(***************************************************************************)
(* _verify_maturity_paths                                                  *)
(***************************************************************************)
valid_methods == {"get", "post", "put", "patch", "delete"}

\* the table of lines 231-236
Expectations ==
    << [method |-> "post", status |-> "201", description |-> "Created"],
       [method |-> "put", status |-> "200", description |-> "OK"],
       [method |-> "patch", status |-> "200", description |-> "OK"],
       [method |-> "delete", status |-> "200", description |-> "OK"] >>

\* method in path_info
HasMethod(path_info, m) == \E k \in 1..Len(path_info) : path_info[k].method = m

\* path_info[method].get('responses', {})
ResponsesOf(path_info, m) ==
    path_info[CHOOSE k \in 1..Len(path_info) : path_info[k].method = m].responses

\* next(iter(responses.keys()), None)
ActualStatus(responses) == IF responses = <<>> THEN "None" ELSE responses[1].code

\* responses.get(expected_status, {}).get('description', '')
ActualDescription(responses, expected_status) ==
    IF \E k \in 1..Len(responses) : responses[k].code = expected_status
    THEN responses[CHOOSE k \in 1..Len(responses) : responses[k].code = expected_status].description
    ELSE ""

Msg(kind, path, method, expected, actual) ==
    [kind |-> kind, path |-> path, method |-> method, expected |-> expected, actual |-> actual]

\* lines 221-226: one message per method outside valid_methods, in key order
RECURSIVE NonConventional(_, _)
NonConventional(path, path_info) ==
    IF path_info = <<>> THEN <<>>
    ELSE (IF Head(path_info).method \notin valid_methods
          THEN << Msg("non_conventional", path, Head(path_info).method, "", "") >>
          ELSE <<>>) \o NonConventional(path, Tail(path_info))

\* lines 242-276 for one present method of the table
MethodVerdict(path, e, responses) ==
    LET actual_status == ActualStatus(responses)
        actual_description == ActualDescription(responses, e.status)
    IN IF actual_status = e.status
       THEN IF actual_description # e.description
            THEN << Msg("pass_status", path, e.method, e.status, actual_status),
                    Msg("warn_description", path, e.method, e.description, actual_description) >>
            ELSE << Msg("pass_status_description", path, e.method, e.status, actual_status) >>
       ELSE IF actual_description # ""
            THEN << Msg("fail_wrong_status", path, e.method, e.status, actual_status) >>
            ELSE << Msg("fail_no_response", path, e.method, e.status, actual_status) >>

\* lines 231-276: the table's methods in table order, from entry k on
RECURSIVE Verdicts(_, _, _)
Verdicts(path, path_info, k) ==
    IF k > Len(Expectations) THEN <<>>
    ELSE (IF HasMethod(path_info, Expectations[k].method)
          THEN MethodVerdict(path, Expectations[k], ResponsesOf(path_info, Expectations[k].method))
          ELSE <<>>) \o Verdicts(path, path_info, k + 1)

\* the flag without the test of lines 228-229 for 'get'
ClearsOnlyPostIgnoringGet(path_info) ==
    \E k \in 1..Len(Expectations) :
        Expectations[k].method # "post" /\ HasMethod(path_info, Expectations[k].method)

\* lines 228-229 and 238-240: this path clears _has_only_post_method
ClearsOnlyPost(path_info) ==
    \/ HasMethod(path_info, "get")
    \/ \E k \in 1..Len(Expectations) :
          Expectations[k].method # "post" /\ HasMethod(path_info, Expectations[k].method)

\* the messages of paths p..Len(paths)
RECURSIVE PathMessages(_, _)
PathMessages(paths, p) ==
    IF p > Len(paths) THEN <<>>
    ELSE NonConventional(p, paths[p]) \o Verdicts(p, paths[p], 1) \o PathMessages(paths, p + 1)

\* lines 278-283
Aggregate(paths) ==
    IF \E p \in 1..Len(paths) : ClearsOnlyPost(paths[p])
    THEN Msg("level1", 0, "", "", "")
    ELSE Msg("level0", 0, "", "", "")

\* feedback['messages']
verify_maturity_paths(paths) == Append(PathMessages(paths, 1), Aggregate(paths))

(***************************************************************************)
(* analyze_api_maturity                                                    *)
(***************************************************************************)
NoResult == [status |-> "none", message |-> "", raised |-> FALSE, feedback |-> <<>>,
             https |-> "none", doc |-> NoDoc]

ErrorResult(message, doc) ==
    [status |-> "error", message |-> message, raised |-> FALSE, feedback |-> <<>>,
     https |-> "none", doc |-> doc]

\* lines 302-303: return swagger_doc
PassThrough(doc) ==
    [status |-> doc.status, message |-> doc.message.text, raised |-> FALSE,
     feedback |-> <<>>, https |-> "none", doc |-> doc]

\* json.loads of a str payload (lines 307-309)
JsonLoads(v) == IF v.inner = "dict" THEN JDict(FALSE, <<>>) ELSE JInvalid

\* the inspection reading a payload that is no dict as an empty one,
\* (response or {}).get('paths', {}), instead of returning the error
inspect_doc_lenient(doc) ==
    IF doc.status = "error" THEN [returns |-> TRUE, value |-> PassThrough(doc), paths |-> <<>>]
    ELSE LET response == IF doc.response.t = "str" THEN JsonLoads(doc.response)
                         ELSE doc.response
         IN IF response.t = "invalid"
            THEN [returns |-> TRUE, paths |-> <<>>,
                  value |-> ErrorResult("The API is documented, but the documentation is not valid JSON", doc)]
            ELSE [returns |-> FALSE, value |-> NoResult,
                  paths |-> IF response.hasPaths THEN response.paths ELSE <<>>]

\* lines 302-326: the paths to score, or the value returned before scoring
inspect_doc(doc) ==
    IF doc.status = "error" THEN [returns |-> TRUE, value |-> PassThrough(doc), paths |-> <<>>]
    ELSE LET response == IF doc.response.t = "str" THEN JsonLoads(doc.response)
                         ELSE doc.response
         IN IF response.t = "invalid"
            THEN [returns |-> TRUE, paths |-> <<>>,
                  value |-> ErrorResult("The API is documented, but the documentation is not valid JSON", doc)]
            ELSE IF response.t # "dict"
            THEN [returns |-> TRUE, paths |-> <<>>,
                  value |-> ErrorResult("The API is documented, but no paths were found", doc)]
            ELSE [returns |-> FALSE, value |-> NoResult,
                  paths |-> IF response.hasPaths THEN response.paths ELSE <<>>]

\* lines 331-337
FinalResult(feedback, https, doc) ==
    IF https.raised
    THEN [status |-> "raised", message |-> https.exc, raised |-> TRUE,
          feedback |-> feedback, https |-> https.status, doc |-> doc]
    ELSE [status |-> IF feedback # <<>> THEN "success" ELSE "error", message |-> "",
          raised |-> FALSE, feedback |-> feedback, https |-> https.status, doc |-> doc]

(***************************************************************************)
(* The calls: check_swagger_rest(uri, doc_endpoint) and                    *)
(* analyze_api_maturity(uri)                                               *)
(***************************************************************************)
BaseUris ==
    { <<"http", ":", "/", "/", "api">>,
      <<"http", "s", ":", "/", "/", "api", "/">>,
      <<"api">>,
      <<"http", "x", ":", "/", "/", "api">> }

DocEndpoints == { NoEndpoint, <<"swagger.json">>, <<"/", "swagger.json">>, <<"/">> }

NoCall == Returned(FALSE, NoResponse, FALSE)

NoRateResult == [status |-> "none", message |-> "", response_code |-> 0]

\* estimate_rate_limit is not called
RateIdle ==
    /\ r_n = 0
    /\ r_tasks = <<>>
    /\ r_sent = 0
    /\ r_pc = "idle"
    /\ r_result = NoRateResult

ScorerIdle ==
    /\ s_paths = <<>>
    /\ s_pc = "input"
    /\ s_feedback = <<>>

Init ==
    /\ op \in {"check_swagger_rest", "analyze_api_maturity"}
    /\ uri \in BaseUris
    /\ doc_endpoint \in (IF op = "check_swagger_rest" THEN DocEndpoints ELSE {NoEndpoint})
    /\ host \in {"up", "down"}
    /\ live = 0
    /\ pc = "locating"
    /\ idx = 1
    /\ errors = {}
    /\ cls = NoCall
    /\ swagger_doc = NoDoc
    /\ probes = <<>>
    /\ gets = <<>>
    /\ calls = <<>>
    /\ result = NoResult
    /\ ScorerIdle
    /\ RateIdle

\* One iteration of the loop of check_swagger_rest (lines 102-139): the
\* call of _is_json_rest_api with its GET, and what the loop does with it;
\* after the last candidate, the return of lines 141-150.
ProbeCandidate ==
    /\ pc = "locating"
    /\ idx <= Len(Endpoints(doc_endpoint))
    /\ LET full_url == FullUrl(uri, Endpoints(doc_endpoint)[idx])
           target == RStrip(full_url, "/")
       IN \E o \in (IF PassesSchemeGuard(full_url) THEN Transport(target, host, live)
                    ELSE {NoResponse}) :
            LET r == is_json_rest_api(full_url, o)
                step == check_candidate(full_url, r, doc_endpoint)
                last == idx = Len(Endpoints(doc_endpoint))
            IN /\ cls' = r
               /\ probes' = Append(probes, full_url)
               /\ gets' = IF r.requested THEN Append(gets, target) ELSE gets
               /\ live' = IF IsLive(o) THEN live + 1 ELSE live
               /\ errors' = errors \cup step.errors
               /\ idx' = IF step.returns THEN idx ELSE idx + 1
               /\ swagger_doc' = IF step.returns THEN step.doc
                                 ELSE IF last THEN ErrorDoc(errors', doc_endpoint)
                                 ELSE swagger_doc
               /\ pc' = IF step.returns \/ last
                        THEN (IF op = "analyze_api_maturity" THEN "inspect" ELSE "done")
                        ELSE pc
    /\ UNCHANGED <<op, uri, doc_endpoint, host, calls, result>>
    /\ UNCHANGED scorerVars
    /\ UNCHANGED rateVars

\* analyze_api_maturity after check_swagger_rest returned (lines 302-328):
\* the early returns, or the call of _verify_maturity_paths
AnalyzeInspect ==
    /\ pc = "inspect"
    /\ LET ins == inspect_doc(swagger_doc)
       IN IF ins.returns
          THEN /\ result' = ins.value
               /\ pc' = "done"
               /\ calls' = calls
          ELSE /\ result' = [NoResult EXCEPT !.feedback = verify_maturity_paths(ins.paths)]
               /\ pc' = "https"
               /\ calls' = Append(calls, "_verify_maturity_paths")
    /\ UNCHANGED <<op, uri, doc_endpoint, host, live, idx, errors, cls, swagger_doc,
                   probes, gets>>
    /\ UNCHANGED scorerVars
    /\ UNCHANGED rateVars

\* lines 329-337: _supports_https with its GET, and the return
AnalyzeHttps ==
    /\ pc = "https"
    /\ \E o \in Transport(HttpsUri(uri), host, 0) :
          /\ result' = FinalResult(result.feedback, supports_https(uri, o), swagger_doc)
          /\ gets' = Append(gets, HttpsUri(uri))
    /\ calls' = Append(calls, "_supports_https")
    /\ pc' = "done"
    /\ UNCHANGED <<op, uri, doc_endpoint, host, live, idx, errors, cls, swagger_doc, probes>>
    /\ UNCHANGED scorerVars
    /\ UNCHANGED rateVars

Next == ProbeCandidate \/ AnalyzeInspect \/ AnalyzeHttps

Spec == Init /\ [][Next]_vars

(***************************************************************************)
(* _verify_maturity_paths on every paths mapping of at most MaxSize nodes  *)
(***************************************************************************)
InputMethods == valid_methods \cup {"options"}
InputCodes == {"200", "201", "404"}
InputDescriptions == {"OK", "Created", ""}

RECURSIVE CountResponses(_)
CountResponses(path_info) ==
    IF path_info = <<>> THEN 0
    ELSE 1 + Len(Head(path_info).responses) + CountResponses(Tail(path_info))

RECURSIVE Size(_)
Size(paths) == IF paths = <<>> THEN 0 ELSE 1 + CountResponses(Head(paths)) + Size(Tail(paths))

LocatorIdle ==
    /\ op = "_verify_maturity_paths"
    /\ uri = <<>>
    /\ doc_endpoint = NoEndpoint
    /\ host = "up"
    /\ live = 0
    /\ pc = "done"
    /\ idx = 1
    /\ errors = {}
    /\ cls = NoCall
    /\ swagger_doc = NoDoc
    /\ probes = <<>>
    /\ gets = <<>>
    /\ calls = <<>>
    /\ result = NoResult

InitScorer == LocatorIdle /\ ScorerIdle /\ RateIdle

\* the caller's mapping gets one more (empty) path
AddPath ==
    /\ s_pc = "input"
    /\ Size(s_paths) < MaxSize
    /\ s_paths' = Append(s_paths, <<>>)
    /\ UNCHANGED <<s_pc, s_feedback>>
    /\ UNCHANGED locatorVars
    /\ UNCHANGED rateVars

\* its last path gets one more method, with no responses yet
AddMethod(m) ==
    /\ s_pc = "input"
    /\ Size(s_paths) < MaxSize
    /\ s_paths # <<>>
    /\ ~HasMethod(s_paths[Len(s_paths)], m)
    /\ s_paths' = [s_paths EXCEPT ![Len(s_paths)] =
                      Append(@, [method |-> m, responses |-> <<>>])]
    /\ UNCHANGED <<s_pc, s_feedback>>
    /\ UNCHANGED locatorVars
    /\ UNCHANGED rateVars

\* its last method gets one more response entry
AddResponse(c, d) ==
    /\ s_pc = "input"
    /\ Size(s_paths) < MaxSize
    /\ s_paths # <<>>
    /\ s_paths[Len(s_paths)] # <<>>
    /\ LET p == Len(s_paths)
           k == Len(s_paths[p])
       IN /\ \A j \in 1..Len(s_paths[p][k].responses) : s_paths[p][k].responses[j].code # c
          /\ s_paths' = [s_paths EXCEPT ![p][k].responses =
                            Append(@, [code |-> c, description |-> d])]
    /\ UNCHANGED <<s_pc, s_feedback>>
    /\ UNCHANGED locatorVars
    /\ UNCHANGED rateVars

\* the call _verify_maturity_paths(paths)
Score ==
    /\ s_pc = "input"
    /\ s_feedback' = verify_maturity_paths(s_paths)
    /\ s_pc' = "scored"
    /\ UNCHANGED s_paths
    /\ UNCHANGED locatorVars
    /\ UNCHANGED rateVars

NextScorer ==
    \/ AddPath
    \/ \E m \in InputMethods : AddMethod(m)
    \/ \E c \in InputCodes, d \in InputDescriptions : AddResponse(c, d)
    \/ Score

SpecScorer == InitScorer /\ [][NextScorer]_vars

(***************************************************************************)
(* estimate_rate_limit(uri, max_requests)                                  *)
(***************************************************************************)
TooManyRequests == Response(429, "Too Many Requests", <<"text/html">>, <<>>, NoBody)

\* what one session.get of make_request can produce
RateOutcomes ==
    { Response(200, "OK", <<"text/html">>, <<>>, NoBody), TooManyRequests, ConnectError }

\* make_request (lines 356-375), o being what its GET produced; None is 0
make_request(o) ==
    IF o.kind # "response"
    THEN [status |-> "error", message |-> "An error occurred while requesting",
          response_code |-> 0]
    ELSE IF o.status_code = 429
    THEN [status |-> "error",
          message |-> "The API returned a 429 error (too many requests)",
          response_code |-> o.status_code]
    ELSE [status |-> "success", message |-> "All requests were successful",
          response_code |-> o.status_code]

\* a coroutine of tasks: created, then waiting for its GET, then done
Task(st, res) == [st |-> st, result |-> res]

\* a wait that returns at the first task done (FIRST_COMPLETED)
GatherAnyDone(tasks) ==
    tasks = <<>> \/ \E i \in 1..Len(tasks) : tasks[i].st = "done"

\* asyncio.gather(*tasks) returns when all its tasks are done (line 381)
GatherDone(tasks) == \A i \in 1..Len(tasks) : tasks[i].st = "done"

\* lines 383-391: the first error of results, in task order, or success
RECURSIVE FirstError(_, _)
FirstError(tasks, i) ==
    IF i > Len(tasks)
    THEN [status |-> "success",
          message |-> "All requests were successful without 429 errors",
          response_code |-> 0]
    ELSE IF tasks[i].result.status = "error" THEN tasks[i].result
    ELSE FirstError(tasks, i + 1)

InitRate ==
    /\ op = "estimate_rate_limit"
    /\ uri = <<"http", ":", "/", "/", "api">>
    /\ doc_endpoint = NoEndpoint
    /\ host = "up"
    /\ live = 0
    /\ pc = "done"
    /\ idx = 1
    /\ errors = {}
    /\ cls = NoCall
    /\ swagger_doc = NoDoc
    /\ probes = <<>>
    /\ gets = <<>>
    /\ calls = <<>>
    /\ result = NoResult
    /\ ScorerIdle
    /\ r_n \in 0..MaxRequests
    /\ r_tasks = [i \in 1..r_n |-> Task("created", NoRateResult)]
    /\ r_sent = 0
    /\ r_pc = "gathering"
    /\ r_result = NoRateResult

\* task i runs to its await: it issues its GET (line 358)
SendRequest(i) ==
    /\ r_pc = "gathering"
    /\ r_tasks[i].st = "created"
    /\ r_tasks' = [r_tasks EXCEPT ![i].st = "waiting"]
    /\ r_sent' = r_sent + 1
    /\ UNCHANGED <<r_n, r_pc, r_result>>
    /\ UNCHANGED locatorVars
    /\ UNCHANGED scorerVars

\* the GET of task i completes and make_request returns (lines 359-375)
CompleteRequest(i) ==
    /\ r_pc = "gathering"
    /\ r_tasks[i].st = "waiting"
    /\ \E o \in RateOutcomes : r_tasks' = [r_tasks EXCEPT ![i] = Task("done", make_request(o))]
    /\ UNCHANGED <<r_n, r_sent, r_pc, r_result>>
    /\ UNCHANGED locatorVars
    /\ UNCHANGED scorerVars

\* gather returns and the results are inspected (lines 381-391)
InspectResults ==
    /\ r_pc = "gathering"
    /\ GatherDone(r_tasks)
    /\ r_result' = FirstError(r_tasks, 1)
    /\ r_pc' = "returned"
    /\ UNCHANGED <<r_n, r_tasks, r_sent>>
    /\ UNCHANGED locatorVars
    /\ UNCHANGED scorerVars

NextRate ==
    \/ \E i \in 1..r_n : SendRequest(i)
    \/ \E i \in 1..r_n : CompleteRequest(i)
    \/ InspectResults

SpecRate == InitRate /\ [][NextRate]_vars

(***************************************************************************)
(* Properties of check_swagger_rest and _is_json_rest_api (under Spec)     *)
(***************************************************************************)
Located == swagger_doc.status # "none"

LastProbe == probes[Len(probes)]

\* the default candidates in the documented priority order
PriorityOrder ==
    << <<"openapi.json">>, <<"swagger.json">>, <<"docs">>, <<"api-docs">>,
       <<"swagger">>, <<"redoc">>, <<"api", "/", "docs">>,
       <<"swagger", "/", "ui">>, <<>> >>

\* C1: without an explicit endpoint the k-th probe is the k-th candidate of
\* the priority order under the base URL, each probe that reaches the
\* network sends one GET for it, and a success or warning is returned at the
\* probe that produced it: it names the last URL probed and the loop index
\* has not moved past it; only an exhausted list returns error.
C1_ProbesInOrderUntilFirstHit ==
    (op # "_verify_maturity_paths" /\ ~Truthy(doc_endpoint)) =>
        /\ Len(probes) <= Len(PriorityOrder)
        /\ \A k \in 1..Len(probes) :
              /\ probes[k] = RStrip(uri, "/") \o <<"/">> \o PriorityOrder[k]
              /\ PassesSchemeGuard(uri) => gets[k] = RStrip(probes[k], "/")
        /\ ~PassesSchemeGuard(uri) => gets = <<>>
        /\ swagger_doc.status \in {"success", "warning"} =>
              /\ Len(probes) = idx
              /\ swagger_doc.message.url = LastProbe
        /\ swagger_doc.status = "error" => Len(probes) = Len(PriorityOrder)
        /\ swagger_doc.status = "none" => Len(probes) = idx - 1

\* only the third candidate, docs, succeeds: three probes
C1_Witness ==
    /\ ~Truthy(doc_endpoint)
    /\ swagger_doc.status = "success"
    /\ Len(probes) = 3
    /\ errors # {}

\* the target answered 404 to every probe so far
AllNotFound ==
    /\ probes # <<>>
    /\ HasHttpScheme(uri)
    /\ host = "up"
    /\ live = 0

\* C2: when every candidate returns 404 the outcome is status error with
\* the message 'No REST API documentation found' and the collected errors
\* hold a '404 Client Error: <reason> for url: <url>' entry per candidate.
C2_All404YieldsClientErrorEntries ==
    (Located /\ AllNotFound) =>
        /\ swagger_doc.status = "error"
        /\ swagger_doc.message.text = "No REST API documentation found"
        /\ \A k \in 1..Len(probes) :
              \E e \in swagger_doc.collected :
                  /\ e.kind = "client_error"
                  /\ e.code = 404
                  /\ e.url = RStrip(probes[k], "/")

\* the last probe got a 2xx response with a keyword marker and no JSON content type
NonJsonDocAnswer ==
    /\ probes # <<>>
    /\ ~cls.raised
    /\ cls.response.kind = "response"
    /\ cls.response.status_code \div 100 = 2
    /\ \E k \in 1..Len(cls.response.body.text) :
          Lower(cls.response.body.text[k]) \in
              {"swagger", "openapi", "endpoints", "paths", "documentation"}
    /\ ~Contains(cls.response.content_type, "application/json")

\* C3: a candidate answering 2xx with a keyword marker in a non-JSON body
\* ends the search with status warning and a message naming its URL (with
\* the note when no endpoint was given), whatever its other headers.
C3_NonJsonDocYieldsWarning ==
    NonJsonDocAnswer =>
        /\ swagger_doc.status = "warning"
        /\ swagger_doc.message.url = LastProbe
        /\ (doc_endpoint = NoEndpoint) =>
              swagger_doc.message.note =
                  "(Endpoint not specified, please provide the JSON documentation endpoint)"

\* C4: a success outcome carries the parsed JSON body of the response of the
\* candidate its message names, and that payload is not null.
C4_SuccessCarriesParsedBody ==
    swagger_doc.status = "success" =>
        /\ swagger_doc.response.t \in {"dict", "list", "str"}
        /\ swagger_doc.response = cls.response.body.json
        /\ swagger_doc.message.url = LastProbe
        /\ cls.response.url = RStrip(LastProbe, "/")

C4_Witness ==
    /\ swagger_doc.status = "success"
    /\ swagger_doc.response.t = "dict"
    /\ swagger_doc.message.url = FullUrl(uri, <<"swagger.json">>)

\* C5: for an input that does not begin with http:// or https://, the
\* classifier returns (False, None) and sends no request.
C5_NoSchemeNoRequest ==
    (probes # <<>> /\ ~HasHttpScheme(LastProbe)) =>
        /\ ~cls.raised
        /\ ~cls.is_rest
        /\ cls.response = NoResponse
        /\ ~cls.requested

\* C6: the classifier never raises; a failure of its GET or any other fault
\* during classification comes back as (False, None).
C6_ClassifierNeverRaises == ~cls.raised

(***************************************************************************)
(* Properties of _verify_maturity_paths (under SpecScorer)                 *)
(***************************************************************************)
Scored == s_pc = "scored"

\* the kinds of the messages emitted for method m of path p
KindsFor(p, m) ==
    { s_feedback[k].kind :
        k \in { j \in 1..Len(s_feedback) : s_feedback[j].path = p /\ s_feedback[j].method = m } }

Declares(responses, code) == \E k \in 1..Len(responses) : responses[k].code = code

DeclaredDescription(responses, code) ==
    responses[CHOOSE k \in 1..Len(responses) : responses[k].code = code].description

PassKinds == {"pass_status", "pass_status_description"}
FailKinds == {"fail_wrong_status", "fail_no_response"}

\* C7: for POST/PUT/PATCH/DELETE on a path the verdict depends only on
\* whether the expected status code (201 for POST, 200 otherwise) is among
\* the declared codes, at any position: if it is, a pass message (and a
\* warning exactly when the description differs from Created/OK) and no fail
\* message; if it is not, a fail message, the 'no response status or
\* description' one only when the method declares no status at all.
C7_VerdictByPresenceOfExpectedStatus ==
    Scored =>
        \A p \in 1..Len(s_paths) : \A k \in 1..Len(s_paths[p]) :
            LET m == s_paths[p][k].method
                rs == s_paths[p][k].responses
                expected == IF m = "post" THEN "201" ELSE "200"
                text == IF m = "post" THEN "Created" ELSE "OK"
            IN m \in {"post", "put", "patch", "delete"} =>
                  IF Declares(rs, expected)
                  THEN /\ KindsFor(p, m) \cap PassKinds # {}
                       /\ KindsFor(p, m) \cap FailKinds = {}
                       /\ ("warn_description" \in KindsFor(p, m))
                             <=> (DeclaredDescription(rs, expected) # text)
                  ELSE /\ KindsFor(p, m) \cap PassKinds = {}
                       /\ KindsFor(p, m) \cap FailKinds # {}
                       /\ ("fail_no_response" \in KindsFor(p, m)) <=> (rs = <<>>)

\* C8: every (path, method) pair of the mapping gets at least one message,
\* a GET declaring 200/'OK' one pass message.
C8_EveryMethodGetsAMessage ==
    Scored =>
        \A p \in 1..Len(s_paths) : \A k \in 1..Len(s_paths[p]) :
            /\ KindsFor(p, s_paths[p][k].method) # {}
            /\ ( /\ s_paths[p][k].method = "get"
                 /\ s_paths[p][k].responses = << [code |-> "200", description |-> "OK"] >> )
               => KindsFor(p, "get") = {"pass_status_description"}

AggregateKinds == {"level0", "level1"}

PostOnlyCreated ==
    << << [method |-> "post",
           responses |-> << [code |-> "201", description |-> "Created"] >>] >> >>

\* C9: for every mapping, the empty one included, exactly one aggregate
\* message is emitted and it is the last message; it is the level-0 'only
\* POST methods' one exactly when no path declares get, put, patch or
\* delete.  A lone POST with 201/'Created' gives one pass message and then
\* the level-0 aggregate.
C9_OneTrailingAggregate ==
    Scored =>
        /\ s_feedback # <<>>
        /\ s_feedback[Len(s_feedback)].kind \in AggregateKinds
        /\ \A k \in 1..(Len(s_feedback) - 1) : s_feedback[k].kind \notin AggregateKinds
        /\ (s_feedback[Len(s_feedback)].kind = "level0")
              <=> (\A p \in 1..Len(s_paths) : \A k \in 1..Len(s_paths[p]) :
                      s_paths[p][k].method \notin {"get", "put", "patch", "delete"})
        /\ (s_paths = PostOnlyCreated) =>
              /\ Len(s_feedback) = 2
              /\ s_feedback[1].kind = "pass_status_description"
              /\ s_feedback[1].method = "post"
              /\ s_feedback[2].kind = "level0"

\* two paths, the second one clearing the POST-only flag with a GET
C9_Witness ==
    /\ Scored
    /\ Len(s_paths) = 2
    /\ HasMethod(s_paths[1], "post")
    /\ HasMethod(s_paths[2], "get")
    /\ s_feedback[Len(s_feedback)].kind = "level1"
    /\ Len(s_feedback) > 1

(***************************************************************************)
(* Properties of analyze_api_maturity (under Spec)                         *)
(***************************************************************************)
\* C10: when the locator succeeds with a documentation payload that has no
\* 'paths' key, analyze_api_maturity returns status error with the
\* 'documented, but no paths were found' message, not status success.
C10_MissingPathsIsAnError ==
    ( /\ op = "analyze_api_maturity"
      /\ pc = "done"
      /\ ~result.raised
      /\ swagger_doc.status = "success"
      /\ swagger_doc.response.t = "dict"
      /\ ~swagger_doc.response.hasPaths )
    => /\ result.status = "error"
       /\ result.message = "The API is documented, but no paths were found"

(***************************************************************************)
(* Properties of check_swagger_rest with an explicit endpoint (under Spec) *)
(***************************************************************************)
EndpointSupplied == doc_endpoint # NoEndpoint

\* C11: a supplied endpoint, its leading slash stripped, is the only
\* candidate probed; when no documentation is found the outcome is status
\* error with the message 'No REST API documentation found', which carries
\* the '(Endpoint not specified, ...)' suffix exactly when no endpoint was
\* supplied, and the collected errors name the probed URL.
C11_ExplicitEndpointIsSoleCandidate ==
    /\ EndpointSupplied =>
          /\ Len(probes) <= 1
          /\ \A k \in 1..Len(probes) :
                probes[k] = RStrip(uri, "/") \o <<"/">> \o LStrip(doc_endpoint, "/")
          /\ Located => Len(probes) = 1
    /\ swagger_doc.status = "error" =>
          /\ swagger_doc.message.text = "No REST API documentation found"
          /\ (swagger_doc.message.note # "") <=> ~EndpointSupplied
          /\ EndpointSupplied =>
                \E e \in swagger_doc.collected : e.url \in {LastProbe, RStrip(LastProbe, "/")}

(***************************************************************************)
(* Properties of _supports_https (under Spec, called by                    *)
(* analyze_api_maturity)                                                   *)
(***************************************************************************)
HttpsChecked == Len(calls) = 2 /\ calls[2] = "_supports_https"

\* C12: _supports_https never raises: whatever its single GET produces, a
\* 2xx JSON response with an unparseable body included, it returns status
\* success or error; a URI that already starts with https:// is requested
\* unchanged.
C12_HttpsCheckNeverRaises ==
    HttpsChecked =>
        /\ ~result.raised
        /\ result.https \in {"success", "error"}
        /\ StartsWith(uri, <<"http", "s", ":", "/", "/">>) => gets[Len(gets)] = uri

(***************************************************************************)
(* Properties of estimate_rate_limit (under SpecRate)                      *)
(***************************************************************************)
RateReturned == r_pc = "returned"

\* C13: for every max_requests N >= 0 exactly N GET requests are issued and
\* no result is inspected before all N have completed, in whatever order
\* they complete: a value is returned, a 429 report included, only with
\* every task done; with N = 0 it is success and no request was issued.
C13_AllRequestsGatheredBeforeInspection ==
    /\ r_sent <= r_n
    /\ Len(r_tasks) = r_n
    /\ ~RateReturned => r_result.status = "none"
    /\ RateReturned =>
          /\ r_sent = r_n
          /\ \A i \in 1..r_n : r_tasks[i].st = "done"
          /\ r_result.status \in {"success", "error"}
          /\ (r_result.status = "success")
                <=> (\A i \in 1..r_n : r_tasks[i].result.status = "success")
          /\ r_n = 0 => (r_result.status = "success" /\ r_sent = 0)

\* a 429 reported although another request succeeded
C13_Witness ==
    /\ RateReturned
    /\ r_n >= 2
    /\ r_result.response_code = 429
    /\ \E i \in 1..r_n : r_tasks[i].result.status = "success"

(***************************************************************************)
(* Exceptions inside the loop of check_swagger_rest (under Spec)           *)
(***************************************************************************)
\* the entry 'An error occurred while requesting <url>: <e>' of the last probe
LastProbeFault ==
    [kind |-> "exception", url |-> LastProbe, code |-> 0, reason |-> "", exc |-> cls.exc]

LocatorCalled == op \in {"check_swagger_rest", "analyze_api_maturity"}

\* C14: an exception raised while a candidate is processed, in the
\* classifier or in the parse of the body, is recorded as a collected error
\* and the loop goes on with the next candidate; after the last candidate
\* the error outcome carries it.  The loop always has a next candidate or a
\* returned value with a status.
C14_CandidateFaultsAreCollected ==
    LocatorCalled =>
        /\ (probes # <<>> /\ cls.raised) =>
              /\ LastProbeFault \in errors
              /\ IF Len(probes) < Len(Endpoints(doc_endpoint))
                 THEN /\ pc = "locating"
                      /\ idx = Len(probes) + 1
                      /\ swagger_doc.status = "none"
                 ELSE /\ swagger_doc.status = "error"
                      /\ LastProbeFault \in swagger_doc.collected
        /\ \A e \in errors : e.kind = "exception" => \E k \in 1..Len(probes) : probes[k] = e.url
        /\ pc = "locating" => idx <= Len(Endpoints(doc_endpoint))
        /\ pc # "locating" => swagger_doc.status \in {"success", "warning", "error"}

\* the first candidate raised, and a later one was still probed and found
C14_Witness ==
    /\ Len(probes) >= 3
    /\ \E e \in errors : e.kind = "exception" /\ e.url = probes[1]
    /\ swagger_doc.status = "success"

(***************************************************************************)
(* The order of the steps of analyze_api_maturity (under Spec)             *)
(***************************************************************************)
\* the GET requests of the locator: one per probe when the URI passes the
\* scheme guard, none otherwise
LocatorGets == IF PassesSchemeGuard(uri) THEN Len(probes) ELSE 0

\* scorer and HTTPS check run in this order, after the locator returned,
\* the HTTPS request being the last request sent
StepsInOrder ==
    /\ calls \in { <<>>, <<"_verify_maturity_paths">>,
                   <<"_verify_maturity_paths", "_supports_https">> }
    /\ calls # <<>> => (op = "analyze_api_maturity" /\ Located)
    /\ Len(gets) = LocatorGets + (IF Len(calls) = 2 THEN 1 ELSE 0)
    /\ Len(calls) = 2 => gets[Len(gets)] = HttpsUri(uri)

\* a locator outcome of error or warning ends the analysis with status
\* error, before the scorer and the HTTPS request
FailedLocatorStopsAnalysis ==
    (op = "analyze_api_maturity" /\ pc = "done"
        /\ swagger_doc.status \in {"error", "warning"}) =>
        /\ swagger_doc.response = None
        /\ result.status = "error"
        /\ calls = <<>>
        /\ Len(gets) = LocatorGets

\* C15 as stated: the scorer and the HTTPS checker run only after the
\* locator returned status success with a mapping payload, in the order
\* locator, scorer, HTTPS check; after an error or warning of the locator
\* the result has status error and neither ran.
C15_StepsOnlyAfterMappingPayload ==
    /\ calls # <<>> => (swagger_doc.status = "success" /\ swagger_doc.response.t = "dict")
    /\ StepsInOrder
    /\ FailedLocatorStopsAnalysis

\* C15 amended: the payload is a mapping, or a string whose content parses
\* as JSON to a mapping (lines 307-309); the rest as stated.
C15_StepsOnlyAfterMappingOrEncodedMapping ==
    /\ calls # <<>> =>
          /\ swagger_doc.status = "success"
          /\ \/ swagger_doc.response.t = "dict"
             \/ swagger_doc.response.t = "str" /\ swagger_doc.response.inner = "dict"
    /\ StepsInOrder
    /\ FailedLocatorStopsAnalysis

\* the analysis ran to its end after the third candidate was found
C15_Witness ==
    /\ pc = "done"
    /\ calls = <<"_verify_maturity_paths", "_supports_https">>
    /\ Len(probes) = 3
    /\ result.status = "success"

====
